---------------------------- MODULE Spec2Model ----------------------------
(***************************************************************************)
(* logscanner (src/main.rs): every input line is classified by a regex     *)
(* whose capture group 1 is parsed as a u64, the parsed values feed a      *)
(* histogram, three quantiles of the histogram colour the captured span,   *)
(* and the lines are printed filtered and/or sorted.                       *)
(*                                                                         *)
(* Text is a sequence of one-character strings (all ASCII, so a byte       *)
(* offset is a character offset).  Option<T> is a sequence: <<>> is None   *)
(* and <<x>> is Some(x).  TLC integers are 32 bits wide, so u64 is         *)
(* modelled as an unsigned integer of ValueBits bits with the same         *)
(* checked arithmetic.                                                     *)
(***************************************************************************)
EXTENDS Integers, Sequences, FiniteSets, Bags, TLC

VARIABLES
    pc,       \* position of main, or "panic"
    re,       \* the compiled pattern (opt.expr)
    opt,      \* the flags: matching, sorting, highlight, bold, debug
    lines,    \* the input lines, as read (first `data` of main)
    slots,    \* the buffer the parallel collect fills, one slot per line
    data,     \* the classified lines (second `data` of main)
    k,        \* index of the sequential iterator of the running loop
    hist,     \* the histogram, a bag of recorded values
    p99, p90, p50,  \* the thresholds, None until their let binding runs
    sorted,   \* the result of filter_and_sort
    out,      \* what has been written to the BufWriter
    flushed,  \* whether out.flush() has run
    dbg       \* the lines println! wrote for --debug

vars == <<pc, re, opt, lines, slots, data, k, hist, p99, p90, p50, sorted,
          out, flushed, dbg>>

-----------------------------------------------------------------------------
(* Bounds of the model *)

MaxLineLen == 3     \* longest line given to match_line alone
MaxLines == 3       \* most input lines of a run of main
MaxData == 4        \* longest Vec<Data> given to filter_and_sort alone
MaxVal == 4         \* largest value and threshold given to to_percentile alone
ValueBits == 4      \* width of the model's u64

U64_MAX == 2^ValueBits - 1

-----------------------------------------------------------------------------
(* Text *)

DigitChars == <<"0", "1", "2", "3", "4", "5", "6", "7", "8", "9">>

Digits == {DigitChars[i] : i \in 1..10}

Alphabet == {"0", "1", "5", "6", "a", "+", "-"}

NonDigits == Alphabet \ Digits

\* char::to_digit(10): Some(d) for an ASCII digit, None otherwise
to_digit(c) ==
    IF c \in Digits
    THEN <<(CHOOSE i \in 1..10 : DigitChars[i] = c) - 1>>
    ELSE <<>>

\* line[start..end], a half-open range of 0-based offsets
Slice(line, start, end) == SubSeq(line, start + 1, end)

Range(start, end) == [start |-> start, end |-> end]

\* every line of at most n characters
LinesUpTo(n) == UNION {[1..m -> Alphabet] : m \in 0..n}

-----------------------------------------------------------------------------
\* The regex crate, for patterns that are a greedy run of one character
\* class, one-or-more or zero-or-more, captured as group 1 or not, with an
\* optional second alternative that is one uncaptured character.

Pattern(cls, star, grouped, alt) ==
    [cls |-> cls, star |-> star, grouped |-> grouped, alt |-> alt]

DigitsGroup    == Pattern(Digits, FALSE, TRUE, {})               \* (\d+)
NonDigitsGroup == Pattern(NonDigits, FALSE, TRUE, {})            \* (\D+)
DigitsNoGroup  == Pattern(Digits, FALSE, FALSE, {})              \* \d+
DigitsOrA      == Pattern(Digits, FALSE, TRUE, {"a"})            \* (\d+)|a
SignedGroup    == Pattern(Digits \cup {"+", "-"}, FALSE, TRUE, {}) \* ([-+\d]+)
DigitsStar     == Pattern(Digits, TRUE, TRUE, {})                \* (\d*)

Patterns == {DigitsGroup, NonDigitsGroup, DigitsNoGroup, DigitsOrA,
             SignedGroup, DigitsStar}

\* end offset of the longest run of cls characters that starts at offset i
RECURSIVE RunEnd(_, _, _)
RunEnd(cls, line, i) ==
    IF i < Len(line) /\ line[i + 1] \in cls
    THEN RunEnd(cls, line, i + 1)
    ELSE i

\* the match that starts at offset i, if any: the first alternative wins
MatchAt(p, line, i) ==
    LET e == RunEnd(p.cls, line, i) IN
    IF e > i \/ p.star
    THEN <<[m |-> Range(i, e),
            g1 |-> IF p.grouped THEN <<Range(i, e)>> ELSE <<>>]>>
    ELSE IF i < Len(line) /\ line[i + 1] \in p.alt
    THEN <<[m |-> Range(i, i + 1), g1 |-> <<>>]>>
    ELSE <<>>

\* Regex::captures: the leftmost match; .m is group 0, .g1 is get(1)
captures(p, line) ==
    LET starts == {i \in 0..Len(line) : MatchAt(p, line, i) # <<>>} IN
    IF starts = {}
    THEN <<>>
    ELSE MatchAt(p, line, CHOOSE i \in starts : \A j \in starts : i <= j)

-----------------------------------------------------------------------------
(* str::parse::<u64> *)

\* the digit loop: checked_mul(10) then checked_add(digit)
RECURSIVE ParseDigits(_, _)
ParseDigits(digits, acc) ==
    IF digits = <<>>
    THEN <<acc>>
    ELSE LET d == to_digit(Head(digits)) IN
         IF d = <<>> THEN <<>>                        \* InvalidDigit
         ELSE IF acc * 10 > U64_MAX THEN <<>>         \* PosOverflow (mul)
         ELSE IF acc * 10 + d[1] > U64_MAX THEN <<>>  \* PosOverflow (add)
         ELSE ParseDigits(Tail(digits), acc * 10 + d[1])

\* Ok(v) is <<v>>, Err(_) is <<>>
parse_u64(src) ==
    IF src = <<>> THEN <<>>                                      \* Empty
    ELSE IF Len(src) = 1 /\ src[1] \in {"+", "-"} THEN <<>>      \* InvalidDigit
    ELSE IF src[1] = "+" THEN ParseDigits(Tail(src), 0)
    ELSE ParseDigits(src, 0)

-----------------------------------------------------------------------------
(* enum Data *)

Matching(line, range, parsed) ==
    [tag |-> "Matching", line |-> line, range |-> range, parsed |-> parsed]

NotMatching(line) == [tag |-> "NotMatching", line |-> line]

IsMatching(d) == d.tag = "Matching"

\* match_line with the whole match taken for group 1
MatchLineGroup0(p, line) ==
    LET c == captures(p, line) IN
    IF c # <<>> /\ parse_u64(Slice(line, c[1].m.start, c[1].m.end)) # <<>>
    THEN Matching(line, c[1].m,
                  parse_u64(Slice(line, c[1].m.start, c[1].m.end))[1])
    ELSE NotMatching(line)

match_line(p, line) ==
    LET c == captures(p, line) IN
    IF c # <<>>
    THEN LET g == c[1].g1 IN
         IF g # <<>>
         THEN LET f == parse_u64(Slice(line, g[1].start, g[1].end)) IN
              IF f # <<>>
              THEN Matching(line, g[1], f[1])
              ELSE NotMatching(line)
         ELSE NotMatching(line)
    ELSE NotMatching(line)

-----------------------------------------------------------------------------
(* impl PartialOrd for Data, and filter_and_sort *)

CmpU64(a, b) == IF a < b THEN "Less" ELSE IF a = b THEN "Equal" ELSE "Greater"

partial_cmp(a, b) ==
    IF IsMatching(a) /\ IsMatching(b)
    THEN <<CmpU64(a.parsed, b.parsed)>>
    ELSE <<>>

\* a comparison that also lets an equal entry move left
IsLessOrEqual(a, b) == partial_cmp(a, b) \in {<<"Less">>, <<"Equal">>}

\* whether the closure of par_sort_by, a.partial_cmp(b).unwrap(), answers Less
is_less(a, b) == partial_cmp(a, b) = <<"Less">>

\* a filter that drops nothing
KeepAll(v) == v

\* .filter(|d| matches!(d, Data::Matching { .. })).collect()
MatchingOnly(v) == SelectSeq(v, IsMatching)

Front(v) == SubSeq(v, 1, Len(v) - 1)

Last(v) == v[Len(v)]

Reverse(v) == [i \in 1..Len(v) |-> v[Len(v) + 1 - i]]

\* the insertion step of the stable sort: x moves left past every element
\* it is less than
RECURSIVE InsertTail(_, _)
InsertTail(prefix, x) ==
    IF prefix = <<>> \/ ~is_less(x, Last(prefix))
    THEN Append(prefix, x)
    ELSE Append(InsertTail(Front(prefix), x), Last(prefix))

RECURSIVE SortPrefix(_, _)
SortPrefix(v, n) ==
    IF n = 0 THEN <<>> ELSE InsertTail(SortPrefix(v, n - 1), v[n])

\* slice::par_sort_by with the closure |a, b| a.partial_cmp(b).unwrap()
par_sort_by(v) == SortPrefix(v, Len(v))

\* the unwrap of the closure panics as soon as an entry without a value
\* is compared, which happens to every entry of a slice of two or more
SortPanics(v) == Len(v) >= 2 /\ \E i \in 1..Len(v) : ~IsMatching(v[i])

Sortings == {"Original", "Asc", "Desc"}

\* filter_and_sort that filters on every path
FilterAlways(v, matching, sorting) ==
    IF sorting = "Original"
    THEN MatchingOnly(v)
    ELSE IF sorting = "Desc"
         THEN Reverse(par_sort_by(MatchingOnly(v)))
         ELSE par_sort_by(MatchingOnly(v))

\* filter_and_sort whose Desc sorts with the comparator's arguments swapped
\* (b.partial_cmp(a)) instead of reversing
RECURSIVE InsertTailDesc(_, _)
InsertTailDesc(prefix, x) ==
    IF prefix = <<>> \/ ~is_less(Last(prefix), x)
    THEN Append(prefix, x)
    ELSE Append(InsertTailDesc(Front(prefix), x), Last(prefix))

RECURSIVE SortPrefixDesc(_, _)
SortPrefixDesc(v, n) ==
    IF n = 0 THEN <<>> ELSE InsertTailDesc(SortPrefixDesc(v, n - 1), v[n])

FilterSortSwappedCmp(v, matching, sorting) ==
    IF sorting = "Original"
    THEN (IF matching THEN MatchingOnly(v) ELSE v)
    ELSE IF sorting = "Desc"
         THEN SortPrefixDesc(MatchingOnly(v), Len(MatchingOnly(v)))
         ELSE par_sort_by(MatchingOnly(v))

\* filter_and_sort that filters only when matching is set
FilterOnlyIfMatching(v, matching, sorting) ==
    LET kept == IF matching THEN MatchingOnly(v) ELSE v IN
    IF sorting = "Original"
    THEN kept
    ELSE IF sorting = "Desc"
         THEN Reverse(par_sort_by(kept))
         ELSE par_sort_by(kept)

filter_and_sort(v, matching, sorting) ==
    IF sorting = "Original"
    THEN (IF matching THEN MatchingOnly(v) ELSE v)
    ELSE IF sorting = "Desc"
         THEN Reverse(par_sort_by(MatchingOnly(v)))
         ELSE par_sort_by(MatchingOnly(v))

-----------------------------------------------------------------------------
(* hdrhistogram::Histogram<u64>, created by Histogram::new(SigFig) *)

SigFig == 5

RECURSIVE Pow(_, _)
Pow(b, n) == IF n = 0 THEN 1 ELSE b * Pow(b, n - 1)

\* sub_bucket_count: the least power of two that is at least 2 * 10^SigFig;
\* values below it are recorded with unit resolution
RECURSIVE PowerOfTwoAtLeast(_, _)
PowerOfTwoAtLeast(n, p) == IF p >= n THEN p ELSE PowerOfTwoAtLeast(n, 2 * p)

SubBucketCount == PowerOfTwoAtLeast(2 * Pow(10, SigFig), 1)

\* the number of low bits the histogram drops from v
RECURSIVE BucketShift(_)
BucketShift(v) == IF v < SubBucketCount THEN 0 ELSE 1 + BucketShift(v \div 2)

highest_equivalent(v) ==
    LET size == Pow(2, BucketShift(v)) IN (v \div size) * size + size - 1

\* hist += value
record(h, v) == h (+) SetToBag({v})

\* hist.len(): the total count
total_count(h) == BagCardinality(h)

\* the number of recorded values that are at most v
CountUpTo(h, v) ==
    LET below == {x \in BagToSet(h) : x <= v} IN
    IF below = {} THEN 0 ELSE BagCardinality([x \in below |-> h[x]])

\* value_at_quantile(q / 100): the first value, in increasing order, whose
\* running count reaches ceil(q * total_count), at least 1; 0 when nothing
\* reaches it, as in an empty histogram
value_at_quantile(h, q) ==
    LET n == IF BagToSet(h) = {} THEN 0 ELSE total_count(h)
        c == (q * n + 99) \div 100
        count_at_quantile == IF c = 0 THEN 1 ELSE c
        reached == {x \in BagToSet(h) : CountUpTo(h, x) >= count_at_quantile}
    IN  IF reached = {}
        THEN 0
        ELSE highest_equivalent(CHOOSE x \in reached : \A y \in reached : x <= y)

-----------------------------------------------------------------------------
(* the closure to_percentile, enum Percentile and its Style *)

\* to_percentile with strict comparisons
ToPercentileStrict(val) ==
    IF p99[1] < val THEN "P99"
    ELSE IF p90[1] < val THEN "P90"
    ELSE IF p50[1] < val THEN "P50"
    ELSE "Other"

to_percentile(val) ==
    IF p99[1] <= val THEN "P99"
    ELSE IF p90[1] <= val THEN "P90"
    ELSE IF p50[1] <= val THEN "P50"
    ELSE "Other"

\* impl From<Percentile> for Style
StyleFrom(p) ==
    CASE p = "P99" -> "red"
      [] p = "P90" -> "yellow"
      [] p = "P50" -> "green"
      [] p = "Other" -> "blue"

\* what one iteration of the output loop writes
Plain(text) == [tag |-> "plain", text |-> text]

Styled(before, during, after, color, bold) ==
    [tag |-> "styled", before |-> before, during |-> during, after |-> after,
     color |-> color, bold |-> bold]

RenderLine(d) ==
    IF ~IsMatching(d)
    THEN Plain(d.line)
    ELSE Styled(Slice(d.line, 0, d.range.start),
                Slice(d.line, d.range.start, d.range.end),
                Slice(d.line, d.range.end, Len(d.line)),
                IF opt.highlight THEN "yellow"
                ELSE StyleFrom(to_percentile(d.parsed)),
                opt.bold)

\* the characters of an output line, styles aside
TextOf(o) == IF o.tag = "plain" THEN o.text ELSE o.before \o o.during \o o.after

-----------------------------------------------------------------------------
(* main *)

None == <<>>

SeqsUpTo(S, n) == UNION {[1..m -> S] : m \in 0..n}

Opts == [matching : BOOLEAN, sorting : Sortings, highlight : BOOLEAN,
         bold : BOOLEAN, debug : BOOLEAN]

\* the lines a run of main reads
InputLines == {<<"a">>, <<"5">>, <<"5", "a">>, <<"a", "1">>}

\* the state main is in once Opt, the Regex, the lines and the empty
\* histogram exist
MainStart ==
    /\ pc = "classify"
    /\ slots = [i \in 1..Len(lines) |-> None]
    /\ data = <<>>
    /\ k = 0
    /\ hist = EmptyBag
    /\ p99 = None /\ p90 = None /\ p50 = None
    /\ sorted = <<>>
    /\ out = <<>>
    /\ flushed = FALSE
    /\ dbg = <<>>

Init ==
    /\ re \in {DigitsGroup, DigitsNoGroup}
    /\ opt \in Opts
    /\ lines \in SeqsUpTo(InputLines, MaxLines)
    /\ MainStart

\* a collect that stores results in the order the workers finish
PlaceByArrival(buf, i, d) ==
    LET free == {j \in 1..Len(buf) : buf[j] = None} IN
    [buf EXCEPT ![CHOOSE j \in free : \A j2 \in free : j <= j2] = <<d>>]

\* the indexed collect of rayon: the result of item i is written to slot i
Place(buf, i, d) == [buf EXCEPT ![i] = <<d>>]

\* data.into_par_iter().map_with(re, ..): some worker classifies line i
Classify(i) ==
    /\ pc = "classify"
    /\ i \in 1..Len(lines)
    /\ slots[i] = None
    /\ slots' = Place(slots, i, match_line(re, lines[i]))
    /\ UNCHANGED <<pc, re, opt, lines, data, k, hist, p99, p90, p50, sorted,
                   out, flushed, dbg>>

\* .collect::<Vec<_>>() returns once every item is mapped
Collect ==
    /\ pc = "classify"
    /\ \A i \in 1..Len(lines) : slots[i] # None
    /\ data' = [i \in 1..Len(lines) |-> slots[i][1]]
    /\ k' = 1
    /\ pc' = "absorb"
    /\ UNCHANGED <<re, opt, lines, slots, hist, p99, p90, p50, sorted, out,
                   flushed, dbg>>

\* the loop recording a 0 for a line without a value
AbsorbEveryLine ==
    /\ pc = "absorb"
    /\ k <= Len(data)
    /\ hist' = record(hist, IF IsMatching(data[k]) THEN data[k].parsed ELSE 0)
    /\ k' = k + 1
    /\ UNCHANGED <<pc, re, opt, lines, slots, data, p99, p90, p50, sorted, out,
                   flushed, dbg>>

\* one iteration of data.iter().for_each(..): hist += *parsed
Absorb ==
    /\ pc = "absorb"
    /\ k <= Len(data)
    /\ hist' = IF IsMatching(data[k]) THEN record(hist, data[k].parsed) ELSE hist
    /\ k' = k + 1
    /\ UNCHANGED <<pc, re, opt, lines, slots, data, p99, p90, p50, sorted, out,
                   flushed, dbg>>

\* a driver that does not wait for the end of the loop
AbsorbEndedEarly == TRUE

\* whether the for_each over data has ended
AbsorbEnded == k > Len(data)

\* let p99 = hist.value_at_quantile(0.99)
ReadP99 ==
    /\ pc = "absorb"
    /\ AbsorbEnded
    /\ p99' = <<value_at_quantile(hist, 99)>>
    /\ pc' = "p90"
    /\ UNCHANGED <<re, opt, lines, slots, data, k, hist, p90, p50, sorted, out,
                   flushed, dbg>>

\* let p90 = hist.value_at_quantile(0.90)
ReadP90 ==
    /\ pc = "p90"
    /\ p90' = <<value_at_quantile(hist, 90)>>
    /\ pc' = "p50"
    /\ UNCHANGED <<re, opt, lines, slots, data, k, hist, p99, p50, sorted, out,
                   flushed, dbg>>

\* let p50 = hist.value_at_quantile(0.50)
ReadP50 ==
    /\ pc = "p50"
    /\ p50' = <<value_at_quantile(hist, 50)>>
    /\ pc' = "filter"
    /\ UNCHANGED <<re, opt, lines, slots, data, k, hist, p99, p90, sorted, out,
                   flushed, dbg>>

\* filter_and_sort(data, opt.matching, opt.sorting)
FilterSort ==
    /\ pc = "filter"
    /\ IF opt.sorting # "Original" /\ SortPanics(MatchingOnly(data))
       THEN pc' = "panic" /\ UNCHANGED <<sorted, k>>
       ELSE /\ sorted' = filter_and_sort(data, opt.matching, opt.sorting)
            /\ k' = 1
            /\ pc' = "render"
    /\ UNCHANGED <<re, opt, lines, slots, data, hist, p99, p90, p50, out,
                   flushed, dbg>>

\* one iteration of .into_iter().for_each(..): writeln!(out, ..)
Render ==
    /\ pc = "render"
    /\ k <= Len(sorted)
    /\ out' = Append(out, RenderLine(sorted[k]))
    /\ k' = k + 1
    /\ UNCHANGED <<pc, re, opt, lines, slots, data, hist, p99, p90, p50, sorted,
                   flushed, dbg>>

\* out.flush()?
Flush ==
    /\ pc = "render"
    /\ k > Len(sorted)
    /\ flushed' = TRUE
    /\ pc' = "debug"
    /\ UNCHANGED <<re, opt, lines, slots, data, k, hist, p99, p90, p50, sorted,
                   out, dbg>>

\* if opt.debug { println!(..) x 4 }; Ok(())
Debug ==
    /\ pc = "debug"
    /\ dbg' = IF opt.debug
              THEN <<total_count(hist), p99[1], p90[1], p50[1]>>
              ELSE dbg
    /\ pc' = "done"
    /\ UNCHANGED <<re, opt, lines, slots, data, k, hist, p99, p90, p50, sorted,
                   out, flushed>>

Next ==
    \/ \E i \in 1..MaxLines : Classify(i)
    \/ Collect
    \/ Absorb
    \/ ReadP99
    \/ ReadP90
    \/ ReadP50
    \/ FilterSort
    \/ Render
    \/ Flush
    \/ Debug

Spec == Init /\ [][Next]_vars

-----------------------------------------------------------------------------
(* match_line alone: one line, every pattern *)

InitMatch ==
    /\ re \in Patterns
    /\ opt \in {o \in Opts : ~o.matching /\ o.sorting = "Original"
                             /\ ~o.highlight /\ ~o.bold /\ ~o.debug}
    /\ lines \in {<<l>> : l \in LinesUpTo(MaxLineLen)}
    /\ MainStart

NextMatch == Classify(1)

SpecMatch == InitMatch /\ [][NextMatch]_vars

-----------------------------------------------------------------------------
(* filter_and_sort alone: every Vec<Data> over a few entries *)

\* entries with equal values and different text, and entries without a value
SampleData ==
    {match_line(DigitsGroup, l) :
        l \in {<<"1">>, <<"5">>, <<"5", "a">>, <<"a", "1">>, <<"a">>, <<"1", "0">>}}

InitFilterSort ==
    /\ pc = "filter"
    /\ re = DigitsGroup
    /\ opt \in {o \in Opts : ~o.highlight /\ ~o.bold /\ ~o.debug}
    /\ data \in SeqsUpTo(SampleData, MaxData)
    /\ lines = [i \in 1..Len(data) |-> data[i].line]
    /\ slots = [i \in 1..Len(data) |-> <<data[i]>>]
    /\ k = 0
    /\ hist = EmptyBag
    /\ p99 = <<0>> /\ p90 = <<0>> /\ p50 = <<0>>
    /\ sorted = <<>>
    /\ out = <<>>
    /\ flushed = FALSE
    /\ dbg = <<>>

NextFilterSort == FilterSort

SpecFilterSort == InitFilterSort /\ [][NextFilterSort]_vars

-----------------------------------------------------------------------------
(* to_percentile alone: every value against every three thresholds *)

InitBucket ==
    /\ pc = "render"
    /\ re = DigitsGroup
    /\ opt \in {o \in Opts : ~o.matching /\ o.sorting = "Original" /\ ~o.debug}
    /\ \E v \in 0..MaxVal :
          /\ lines = <<<<DigitChars[v + 1]>>>>
          /\ data = <<Matching(lines[1], Range(0, 1), v)>>
    /\ slots = <<<<data[1]>>>>
    /\ sorted = data
    /\ k = 1
    /\ hist = EmptyBag
    /\ p99 \in {<<t>> : t \in 0..MaxVal}
    /\ p90 \in {<<t>> : t \in 0..MaxVal}
    /\ p50 \in {<<t>> : t \in 0..MaxVal}
    /\ out = <<>>
    /\ flushed = FALSE
    /\ dbg = <<>>

NextBucket == Render

SpecBucket == InitBucket /\ [][NextBucket]_vars

-----------------------------------------------------------------------------
(* Properties of match_line *)

\* the number a string of decimal digits denotes
RECURSIVE DecimalValue(_)
DecimalValue(s) ==
    IF s = <<>>
    THEN 0
    ELSE 10 * DecimalValue(Front(s))
         + (CHOOSE n \in 0..9 : DigitChars[n + 1] = Last(s))

\* the digits of a numeral: an optional leading plus sign is not one of them
NumeralDigits(t) == IF t # <<>> /\ t[1] = "+" THEN Tail(t) ELSE t

\* t is a base-10 numeral of an unsigned integer that fits the width
IsU64Numeral(t) ==
    /\ NumeralDigits(t) # <<>>
    /\ \A i \in 1..Len(NumeralDigits(t)) : NumeralDigits(t)[i] \in Digits
    /\ DecimalValue(NumeralDigits(t)) <= U64_MAX

\* C1: match_line returns Matching exactly when the pattern matches, group 1
\* took part in the match and its text is the numeral of a u64; then range is
\* the byte range of group 1 and parsed is the number the text at that range
\* denotes. Otherwise it returns NotMatching. Either way the line it carries
\* is the input line.
C1_MatchLineContract ==
    \A i \in 1..Len(slots) :
        slots[i] # None =>
            LET d == slots[i][1]
                c == captures(re, lines[i])
                numeric ==
                    /\ c # None
                    /\ c[1].g1 # None
                    /\ IsU64Numeral(Slice(lines[i], c[1].g1[1].start,
                                          c[1].g1[1].end))
            IN  /\ d.line = lines[i]
                /\ IsMatching(d) <=> numeric
                /\ IsMatching(d) =>
                      /\ d.range = c[1].g1[1]
                      /\ d.parsed = DecimalValue(NumeralDigits(
                            Slice(d.line, d.range.start, d.range.end)))
                /\ ~IsMatching(d) => d = NotMatching(lines[i])

\* a line whose group 1 lies strictly inside it has been classified Matching
C1_Witness ==
    /\ slots # <<>>
    /\ slots[1] # None
    /\ IsMatching(slots[1][1])
    /\ slots[1][1].range.start > 0
    /\ slots[1][1].range.end < Len(lines[1])
    /\ slots[1][1].parsed > 0

-----------------------------------------------------------------------------
(* Properties of filter_and_sort *)

Returned == pc = "render"

MatchedIdx == {i \in 1..Len(data) : IsMatching(data[i])}

\* the bag of the entries of v at the indices idx
EntryBag(v, idx) ==
    [x \in {v[i] : i \in idx} |-> Cardinality({i \in idx : v[i] = x})]

ValuesOf(v) == {v[i].parsed : i \in {j \in 1..Len(v) : IsMatching(v[j])}}

WithValue(v, val) ==
    SelectSeq(v, LAMBDA d : IsMatching(d) /\ d.parsed = val)

MixedData ==
    /\ Len(data) >= 3
    /\ \E i, j \in 1..Len(data) : IsMatching(data[i]) /\ ~IsMatching(data[j])

\* two entries of data with the same value and different text, and a smaller
\* value after them
TiedData ==
    \E i, j, l \in 1..Len(data) :
        /\ i < j /\ j < l
        /\ IsMatching(data[i]) /\ IsMatching(data[j]) /\ IsMatching(data[l])
        /\ data[i].parsed = data[j].parsed
        /\ data[i] # data[j]
        /\ data[l].parsed < data[i].parsed

\* C2: without matching and with sorting Original, filter_and_sort returns
\* its input: same length, same entries, same order.
C2_Identity ==
    (Returned /\ ~opt.matching /\ opt.sorting = "Original") =>
        /\ Len(sorted) = Len(data)
        /\ \A i \in 1..Len(data) : sorted[i] = data[i]

C2_Witness ==
    Returned /\ ~opt.matching /\ opt.sorting = "Original" /\ MixedData

\* C3: with matching and sorting Original, filter_and_sort returns the
\* subsequence of the Matching entries: the j-th Matching entry of the input
\* is the j-th entry of the output and there is no other entry.
C3_MatchingSubsequence ==
    (Returned /\ opt.matching /\ opt.sorting = "Original") =>
        /\ Len(sorted) = Cardinality(MatchedIdx)
        /\ \A i \in MatchedIdx :
              sorted[Cardinality({j \in MatchedIdx : j <= i})] = data[i]

C3_Witness ==
    /\ Returned /\ opt.matching /\ opt.sorting = "Original" /\ MixedData
    /\ Len(sorted) >= 2
    /\ sorted[1].parsed > sorted[2].parsed

\* C4: with sorting Asc or Desc, whatever matching is, filter_and_sort
\* returns (the comparator never panics), the output has no NotMatching
\* entry, it is a permutation of the Matching entries of the input, and it is
\* what the other value of matching gives.
C4_SortingForcesFiltering ==
    /\ pc # "panic"
    /\ (Returned /\ opt.sorting \in {"Asc", "Desc"}) =>
          /\ \A j \in 1..Len(sorted) : IsMatching(sorted[j])
          /\ EntryBag(sorted, 1..Len(sorted)) = EntryBag(data, MatchedIdx)
          /\ sorted = filter_and_sort(data, ~opt.matching, opt.sorting)

C4_Witness ==
    Returned /\ opt.sorting \in {"Asc", "Desc"} /\ ~opt.matching /\ MixedData

\* C5: with sorting Asc the output is non-decreasing in value and, for every
\* value, the entries with that value are in the order they had in the input.
C5_AscendingStable ==
    (Returned /\ opt.sorting = "Asc") =>
        /\ \A i, j \in 1..Len(sorted) :
              i < j => sorted[i].parsed <= sorted[j].parsed
        /\ \A val \in ValuesOf(data) :
              WithValue(sorted, val) = WithValue(data, val)

C5_Witness == Returned /\ opt.sorting = "Asc" /\ TiedData

\* C6: with sorting Desc the output is the reversal of the output for Asc:
\* it is non-increasing in value and, for every value, the entries with that
\* value are in the reverse of the order they had in the input.
C6_DescendingIsReversedAscending ==
    (Returned /\ opt.sorting = "Desc") =>
        /\ sorted = Reverse(filter_and_sort(data, opt.matching, "Asc"))
        /\ sorted = Reverse(filter_and_sort(data, ~opt.matching, "Asc"))
        /\ \A i, j \in 1..Len(sorted) :
              i < j => sorted[i].parsed >= sorted[j].parsed
        /\ \A val \in ValuesOf(data) :
              WithValue(sorted, val) = Reverse(WithValue(data, val))

C6_Witness == Returned /\ opt.sorting = "Desc" /\ TiedData

-----------------------------------------------------------------------------
(* Properties of to_percentile *)

Ordered == p50[1] <= p90[1] /\ p90[1] <= p99[1]

\* C7: with p50 <= p90 <= p99, every value gets exactly one bucket: P99 (red)
\* iff value >= p99, P90 (yellow) iff p90 <= value < p99, P50 (green) iff
\* p50 <= value < p90, Other (blue) iff value < p50.
C7_BucketsPartition ==
    \A j \in 1..Len(out) :
        (out[j].tag = "styled" /\ ~opt.highlight /\ Ordered) =>
            LET val == sorted[j].parsed
                color == out[j].color
            IN  /\ color \in {"red", "yellow", "green", "blue"}
                /\ color = "red" <=> val >= p99[1]
                /\ color = "yellow" <=> (p90[1] <= val /\ val < p99[1])
                /\ color = "green" <=> (p50[1] <= val /\ val < p90[1])
                /\ color = "blue" <=> val < p50[1]

\* a value equal to the middle one of three distinct thresholds was rendered
C7_Witness ==
    /\ Len(out) = 1
    /\ ~opt.highlight
    /\ p50[1] < p90[1] /\ p90[1] < p99[1]
    /\ sorted[1].parsed = p90[1]
    /\ out[1].color = "yellow"

-----------------------------------------------------------------------------
(* Properties of main *)

Classified == pc \notin {"classify", "panic"}

\* the classification of the input, line by line
Classification == [i \in 1..Len(lines) |-> match_line(re, lines[i])]

MatchedLines == {i \in 1..Len(lines) : IsMatching(Classification[i])}

\* the bag of the values of the Matching lines of the whole input
MatchedValues ==
    [val \in {Classification[i].parsed : i \in MatchedLines} |->
        Cardinality({i \in MatchedLines : Classification[i].parsed = val})]

AfterP99 == pc \in {"p90", "p50", "filter", "render", "debug", "done"}
AfterP90 == pc \in {"p50", "filter", "render", "debug", "done"}
AfterP50 == pc \in {"filter", "render", "debug", "done"}

\* C8, as claimed: when no line is Matching, the histogram is not asked for
\* a quantile and no threshold is made.
C8_NoQuantileOfEmptyDigest ==
    (Classified /\ MatchedLines = {}) =>
        (p99 = None /\ p90 = None /\ p50 = None)

\* C8, amended: when no line is Matching, main still asks the empty histogram
\* for the three quantiles and each is 0; no written line is styled, so no
\* threshold is compared with a value, and --debug prints a count of 0 and
\* three zeros.
C8_EmptyDigestGivesZeroThresholds ==
    (Classified /\ MatchedLines = {}) =>
        /\ hist = EmptyBag
        /\ AfterP99 => p99 = <<0>>
        /\ AfterP90 => p90 = <<0>>
        /\ AfterP50 => p50 = <<0>>
        /\ \A j \in 1..Len(out) : out[j].tag = "plain"
        /\ (pc = "done" /\ opt.debug) => dbg = <<0, 0, 0, 0>>

\* a run of several lines, none Matching, that printed them and the summary
C8_Witness ==
    /\ pc = "done"
    /\ opt.debug
    /\ Len(lines) >= 2
    /\ MatchedLines = {}
    /\ Len(out) = Len(lines)
    /\ p50 = <<0>>

\* C9: whenever a threshold has been read, the histogram holds the value of
\* every Matching line of the input once and nothing else; nothing is written
\* before the three thresholds are read; a threshold, once read, never
\* changes, and neither does the histogram.
C9_IngestBeforeThresholds ==
    /\ [](/\ (p99 # None \/ p90 # None \/ p50 # None) =>
                /\ hist = MatchedValues
                /\ (IF hist = EmptyBag THEN 0 ELSE total_count(hist))
                      = Cardinality(MatchedLines)
          /\ out # <<>> => (p99 # None /\ p90 # None /\ p50 # None)
          /\ AfterP99 <=> p99 # None
          /\ AfterP90 <=> p90 # None
          /\ AfterP50 <=> p50 # None)
    /\ [][/\ p99 # None => (p99' = p99 /\ hist' = hist)
          /\ p90 # None => p90' = p90
          /\ p50 # None => p50' = p50]_vars

\* the thresholds were read from a histogram of two or more values, of an
\* input that also has a line without a value, and a line has been written
C9_Witness ==
    /\ p50 # None
    /\ out # <<>>
    /\ Cardinality(MatchedLines) >= 2
    /\ Cardinality(MatchedLines) < Len(lines)
    /\ p50 # p99

\* C10: whatever the order in which the workers classify, the classified
\* sequence is as long as the input and its i-th entry is the classification
\* of the i-th line; without matching and with sorting Original the written
\* lines are the input lines in the input order.
C10_PositionalIdentity ==
    /\ Classified =>
          /\ Len(data) = Len(lines)
          /\ \A i \in 1..Len(lines) : data[i] = Classification[i]
    /\ (pc = "done" /\ ~opt.matching /\ opt.sorting = "Original") =>
          /\ Len(out) = Len(lines)
          /\ \A i \in 1..Len(lines) : TextOf(out[i]) = lines[i]

\* a run over three different lines, with and without a value, is done
C10_Witness ==
    /\ pc = "done"
    /\ ~opt.matching /\ opt.sorting = "Original"
    /\ Len(lines) = 3
    /\ lines[1] # lines[2] /\ lines[2] # lines[3] /\ lines[1] # lines[3]
    /\ MatchedLines # {}
    /\ Cardinality(MatchedLines) < Len(lines)

=============================================================================
